---- MODULE Spec2Model ----
(***************************************************************************)
(* Brooklyn_Food_Desert_App.py: the "Data Visualization" page.             *)
(*                                                                         *)
(* The three geo tables are loaded once (load_data) and every widget       *)
(* change re-executes main() from top to bottom.  One action of this       *)
(* module is one widget change followed by the whole rerun.  A rerun that  *)
(* raises stops where the exception is raised: what comes after it in      *)
(* main() is not rendered.                                                 *)
(*                                                                         *)
(* Tables are sequences of rows (a row keeps its pandas index in idx).     *)
(* A missing cell is NaN: pandas' == is False on it, unique() keeps it,    *)
(* dropna() removes it.  Rank cells are strings, modelled as sequences of  *)
(* one-character strings so that str.isdigit and int are computed.         *)
(***************************************************************************)
EXTENDS Integers, Sequences, FiniteSets, TLC

\* ------------------------------------------------------------------ bounds
MaxLilaRows == 2
MaxCovRows == 2
MaxYearOffset == 1

\* ------------------------------------------------- constants of the program
FirstYear == 2003
LastYear == 2017
years == FirstYear..LastYear

All == "All"
NaN == "NaN"
pages == <<"Home", "Data Analysis", "Data Visualization", "Comments", "Guide">>

\* rank strings: "All" as the selectbox offers it, and the missing rank
AllRank == <<"A", "l", "l">>
NaNRank == <<NaN>>

Digits == {"0", "1", "2", "3", "4", "5", "6", "7", "8", "9"}

\* ------------------------------------------------------- pandas / builtins

\* Series == value, elementwise: False wherever either side is missing
\* (na is the missing value of the column's type)
PdEq(a, b, na) == a # na /\ b # na /\ a = b

RECURSIVE uniqueFrom(_, _)
uniqueFrom(s, seen) ==
  IF s = <<>> THEN <<>>
  ELSE IF Head(s) \in seen THEN uniqueFrom(Tail(s), seen)
  ELSE <<Head(s)>> \o uniqueFrom(Tail(s), seen \cup {Head(s)})

\* Series.unique().tolist(): first appearances, in order, NaN included
unique(s) == uniqueFrom(s, {})

\* Series.dropna()
dropna(s, na) == SelectSeq(s, LAMBDA v : v # na)

\* str.isdigit()
isdigit(s) == Len(s) > 0 /\ \A i \in 1..Len(s) : s[i] \in Digits

DigitVal(c) ==
  CASE c = "0" -> 0 [] c = "1" -> 1 [] c = "2" -> 2 [] c = "3" -> 3
    [] c = "4" -> 4 [] c = "5" -> 5 [] c = "6" -> 6 [] c = "7" -> 7
    [] c = "8" -> 8 [] c = "9" -> 9

\* int(s) of a digit string
RECURSIVE int(_)
int(s) ==
  IF s = <<>> THEN 0
  ELSE int(SubSeq(s, 1, Len(s) - 1)) * 10 + DigitVal(s[Len(s)])

RECURSIVE insertByInt(_, _)
insertByInt(x, s) ==
  IF s = <<>> THEN <<x>>
  ELSE IF int(x) < int(Head(s)) THEN <<x>> \o s
  ELSE <<Head(s)>> \o insertByInt(x, Tail(s))

\* sorted(xs, key=int): ascending, stable
RECURSIVE sortedByInt(_)
sortedByInt(s) ==
  IF s = <<>> THEN <<>>
  ELSE insertByInt(s[Len(s)], sortedByInt(SubSeq(s, 1, Len(s) - 1)))

Range(s) == {s[i] : i \in 1..Len(s)}

\* st.selectbox: the stored choice when it is one of the options, else the
\* first option
selectbox(options, state) ==
  IF state \in Range(options) THEN state ELSE options[1]

\* ---------------------------------------------------------------- columns
NtaColumn(rows) == [i \in 1..Len(rows) |-> rows[i].nta]
TractColumn(rows) == [i \in 1..Len(rows) |-> rows[i].tract]
RankColumn(rows) == [i \in 1..Len(rows) |-> rows[i].rank]

\* f'{year}_rank' in gdf.columns
HasRankColumn(gdf, year) == year \in gdf.rank_years
\* the year's coverage ratio column in gdf.columns
HasValueColumn(gdf, year) == year \in gdf.value_years

\* gdf[gdf[column] == value]: the rows, with their index, where == is True
\* mutant: the neighbourhood filter written with != for ==
RowsWhereNtaNe(rows, value) == SelectSeq(rows, LAMBDA r : ~PdEq(r.nta, value, NaN))
RowsWhereNta(rows, value) == SelectSeq(rows, LAMBDA r : PdEq(r.nta, value, NaN))
\* mutant: the tract filter written with != for ==
RowsWhereTractNe(rows, value) == SelectSeq(rows, LAMBDA r : ~PdEq(r.tract, value, NaN))
RowsWhereTract(rows, value) == SelectSeq(rows, LAMBDA r : PdEq(r.tract, value, NaN))
RowsWhereRank(rows, value) == SelectSeq(rows, LAMBDA r : PdEq(r.rank, value, NaNRank))

\* ------------------------------------------------------------ LILA tab
\* mutant: the loop of display_info left after its first row
display_info_first(details) ==
  [i \in 1..(IF Len(details) > 0 THEN 1 ELSE 0) |->
     [nta |-> details[i].nta, tract |-> details[i].tract]]

\* display_info(details): one card for each row of details
display_info(details) ==
  [i \in 1..Len(details) |-> [nta |-> details[i].nta, tract |-> details[i].tract]]

\* with tabs[0]: the neighbourhood/tract cascade, the map and the detail
\* cards.  nta_state and tract_state are what the two selectboxes hold.
LilaTab(gdf, nta_state, tract_state) ==
  LET nta_options0 == <<All>> \o unique(NtaColumn(gdf))
      nta_selected0 == selectbox(nta_options0, nta_state)
      filtered0 == IF nta_selected0 # All THEN RowsWhereNta(gdf, nta_selected0)
                   ELSE gdf
      tract_options == <<All>> \o unique(TractColumn(filtered0))
      tract_selected == selectbox(tract_options, tract_state)
      by_tract == RowsWhereTract(gdf, tract_selected)
      filtered_gdf == IF tract_selected # All THEN by_tract
                      ELSE IF nta_selected0 # All THEN RowsWhereNta(gdf, nta_selected0)
                      ELSE gdf
      nta_options == IF tract_selected # All
                     THEN <<All>> \o unique(NtaColumn(by_tract))
                     ELSE nta_options0
      \* nta_options[1] of the source is the second element
      IndexError == tract_selected # All /\ nta_selected0 = All /\ Len(nta_options) < 2
      nta_selected == IF tract_selected # All /\ nta_selected0 = All /\ ~IndexError
                      THEN nta_options[2]
                      ELSE nta_selected0
  IN  [ exc            |-> IF IndexError THEN "IndexError" ELSE "none",
        nta_widget     |-> nta_selected0,
        tract_widget   |-> tract_selected,
        nta_options0   |-> nta_options0,
        tract_options  |-> tract_options,
        nta_options    |-> nta_options,
        nta_selected   |-> nta_selected,
        filtered_gdf   |-> filtered_gdf,
        map_shown      |-> ~IndexError,
        map_rows       |-> IF IndexError THEN <<>> ELSE filtered_gdf,
        cards          |-> IF ~IndexError /\ nta_selected # All
                           THEN display_info(filtered_gdf) ELSE <<>>,
        gdf            |-> gdf ]

\* ------------------------------------------------- coverage ratio tabs
\* folium.Map(location=..., zoom_start=10) with nothing added to it
BaseMap == [choropleth |-> FALSE, tooltip |-> FALSE, layer_control |-> FALSE,
            rows |-> <<>>]

\* mutant: the rank filter computed and not assigned to gdf_filtered
create_map_unfiltered(gdf, year, selected_rank) ==
  IF ~HasValueColumn(gdf, year) \/ ~HasRankColumn(gdf, year)
  THEN [m |-> BaseMap, st_error |-> TRUE, gdf |-> gdf]
  ELSE [m |-> [choropleth |-> TRUE, tooltip |-> TRUE, layer_control |-> TRUE,
               rows |-> gdf.rows],
        st_error |-> FALSE,
        gdf |-> gdf]

\* mutant: the rank filter applied when the selection is 'All' and skipped
\* otherwise (== 'All' for != 'All')
create_map_inverted(gdf, year, selected_rank) ==
  IF ~HasValueColumn(gdf, year) \/ ~HasRankColumn(gdf, year)
  THEN [m |-> BaseMap, st_error |-> TRUE, gdf |-> gdf]
  ELSE [m |-> [choropleth |-> TRUE, tooltip |-> TRUE, layer_control |-> TRUE,
               rows |-> IF selected_rank # <<>> /\ selected_rank = AllRank
                        THEN RowsWhereRank(gdf.rows, selected_rank)
                        ELSE gdf.rows],
        st_error |-> FALSE,
        gdf |-> gdf]

\* mutant: the rank filter applied to gdf itself, without gdf.copy()
create_map_inplace(gdf, year, selected_rank) ==
  IF ~HasValueColumn(gdf, year) \/ ~HasRankColumn(gdf, year)
  THEN [m |-> BaseMap, st_error |-> TRUE, gdf |-> gdf]
  ELSE LET gdf_filtered ==
             IF selected_rank # <<>> /\ selected_rank # AllRank
             THEN RowsWhereRank(gdf.rows, selected_rank)
             ELSE gdf.rows
       IN  [m |-> [choropleth |-> TRUE, tooltip |-> TRUE, layer_control |-> TRUE,
                   rows |-> gdf_filtered],
            st_error |-> FALSE,
            gdf |-> [gdf EXCEPT !.rows = gdf_filtered]]

\* create_map(gdf, year, coverage_ratio_col, rank_col, selected_rank): the
\* map m, whether st.error was called, and the caller's table after the call
create_map(gdf, year, selected_rank) ==
  IF ~HasValueColumn(gdf, year) \/ ~HasRankColumn(gdf, year)
  THEN [m |-> BaseMap, st_error |-> TRUE, gdf |-> gdf]
  ELSE LET gdf_filtered ==
             IF selected_rank # <<>> /\ selected_rank # AllRank
             THEN RowsWhereRank(gdf.rows, selected_rank)
             ELSE gdf.rows
       IN  [m |-> [choropleth |-> TRUE, tooltip |-> TRUE, layer_control |-> TRUE,
                   rows |-> gdf_filtered],
            st_error |-> FALSE,
            gdf |-> gdf]

\* display_tooltip_info(gdf_filtered, year, coverage_ratio_col): the cards,
\* or the KeyError of row[coverage_ratio_col] on the first row
display_tooltip_info(gdf_filtered, has_value_col) ==
  IF gdf_filtered = <<>> THEN [exc |-> "none", cards |-> <<>>]
  ELSE IF ~has_value_col THEN [exc |-> "KeyError", cards |-> <<>>]
  ELSE [exc |-> "none",
        cards |-> [i \in 1..Len(gdf_filtered) |->
                     [tract |-> gdf_filtered[i].tract, rank |-> gdf_filtered[i].rank]]]

\* mutant: the rank options without sorted(..., key=int)
rank_options_unsorted(gdf) ==
  <<AllRank>> \o SelectSeq(unique(dropna(RankColumn(gdf.rows), NaNRank)), isdigit)

\* ['All'] + sorted([rank for rank in gdf[f'{year}_rank'].dropna().unique()
\*                   if rank.isdigit()], key=int)
rank_options(gdf) ==
  <<AllRank>> \o
    sortedByInt(SelectSeq(unique(dropna(RankColumn(gdf.rows), NaNRank)), isdigit))

NotRendered ==
  [rendered |-> FALSE, exc |-> "none", year |-> FirstYear, rank_options |-> <<>>,
   selected_rank |-> AllRank, map_shown |-> FALSE, m |-> BaseMap,
   st_error |-> FALSE, detail_rows |-> <<>>, cards |-> <<>>]

\* with tabs[1] / with tabs[2]: year slider, rank selectbox, map, cards
CoverageTab(gdf, year, rank_state) ==
  IF ~HasRankColumn(gdf, year)
  THEN \* gdf[f'{year}_rank'] raises before the selectbox is reached
       [tab |-> [NotRendered EXCEPT !.rendered = TRUE, !.exc = "KeyError",
                                    !.year = year],
        gdf |-> gdf]
  ELSE LET options == rank_options(gdf)
           selected_rank == selectbox(options, rank_state)
           made == create_map(gdf, year, selected_rank)
           filtered_gdf == IF selected_rank # AllRank
                           THEN RowsWhereRank(made.gdf.rows, selected_rank)
                           ELSE <<>>
           info == IF selected_rank # AllRank
                   THEN display_tooltip_info(filtered_gdf, HasValueColumn(gdf, year))
                   ELSE [exc |-> "none", cards |-> <<>>]
       IN  [tab |-> [rendered |-> TRUE, exc |-> info.exc, year |-> year,
                     rank_options |-> options, selected_rank |-> selected_rank,
                     map_shown |-> TRUE, m |-> made.m, st_error |-> made.st_error,
                     detail_rows |-> filtered_gdf, cards |-> info.cards],
            gdf |-> made.gdf]

\* ------------------------------------------------------------------ main
LilaNotRendered ==
  [exc |-> "none", nta_widget |-> All, tract_widget |-> All,
   nta_options0 |-> <<>>, tract_options |-> <<>>, nta_options |-> <<>>,
   nta_selected |-> All, filtered_gdf |-> <<>>, map_shown |-> FALSE,
   map_rows |-> <<>>, cards |-> <<>>]

\* what every widget of the page holds before the user touches it
DefaultWidgets ==
  [nta |-> All, tract |-> All,
   supermarket_year_slider |-> FirstYear, supermarket_rank_select |-> AllRank,
   fast_food_year_slider |-> FirstYear, fast_food_rank_select |-> AllRank]

\* main(): one execution of the script with page `page` chosen in the
\* sidebar and the widgets holding w.  A widget that the run does not reach
\* is dropped by the framework and starts from its default next time.
main(lila_gdf, supermarkets_gdf, fast_food_gdf, page, w) ==
  IF page # "Data Visualization"
  THEN [exc |-> "none", completed |-> TRUE, widgets |-> DefaultWidgets,
        lila |-> LilaNotRendered, supermarket |-> NotRendered,
        fast_food |-> NotRendered,
        gdf_lila |-> lila_gdf, gdf_supermarkets |-> supermarkets_gdf,
        gdf_fast_food |-> fast_food_gdf]
  ELSE
    LET t0 == LilaTab(lila_gdf, w.nta, w.tract)
        r1 == CoverageTab(supermarkets_gdf, w.supermarket_year_slider,
                          w.supermarket_rank_select)
        r2 == CoverageTab(fast_food_gdf, w.fast_food_year_slider,
                          w.fast_food_rank_select)
        ran1 == t0.exc = "none"
        ran2 == ran1 /\ r1.tab.exc = "none"
        t1 == IF ran1 THEN r1.tab ELSE NotRendered
        t2 == IF ran2 THEN r2.tab ELSE NotRendered
        exc == IF ~ran1 THEN t0.exc ELSE IF ~ran2 THEN t1.exc ELSE t2.exc
    IN  [exc |-> exc,
         \* the share and download buttons after the tabs were reached
         completed |-> exc = "none",
         widgets |->
           [nta |-> t0.nta_widget, tract |-> t0.tract_widget,
            supermarket_year_slider |-> t1.year,
            supermarket_rank_select |-> t1.selected_rank,
            fast_food_year_slider |-> t2.year,
            fast_food_rank_select |-> t2.selected_rank],
         lila |-> [f \in DOMAIN LilaNotRendered |-> t0[f]],
         supermarket |-> t1,
         fast_food |-> t2,
         gdf_lila |-> t0.gdf,
         gdf_supermarkets |-> IF ran1 THEN r1.gdf ELSE supermarkets_gdf,
         gdf_fast_food |-> IF ran2 THEN r2.gdf ELSE fast_food_gdf]

\* ----------------------------------------------------------------- state
VARIABLES
  gdf_lila, gdf_supermarkets, gdf_fast_food,  \* the three loaded tables
  selection,                                  \* the sidebar radio
  widgets,                                    \* the page's widget store
  lila, supermarket, fast_food,               \* what the last run rendered
  exc, completed                              \* how the last run ended

vars == <<gdf_lila, gdf_supermarkets, gdf_fast_food, selection, widgets,
          lila, supermarket, fast_food, exc, completed>>

\* ---------------------------------------------------------------- inputs
NtaCells == {"N1", "N2", NaN}
TractCells == {"T1", "T2", NaN}
RankCells == {NaNRank, <<"3">>, <<"7">>, <<"1", "0">>, <<"0", "3">>, <<"x">>}
TRACTCE == <<"360470001", "360470002", "360470003", "360470004">>

SeqsUpTo(S, n) == UNION {[1..k -> S] : k \in 0..n}

\* LILA tables: any rows, identifiers and neighbourhoods not constrained
LilaTables ==
  { [i \in 1..Len(c) |-> [idx |-> i, nta |-> c[i][1], tract |-> c[i][2]]] :
      c \in SeqsUpTo(NtaCells \X TractCells, MaxLilaRows) }

\* coverage tables with every year's columns, any rank cells
CoverageTables ==
  { [rows |-> [i \in 1..Len(c) |-> [idx |-> i, tract |-> TRACTCE[i], rank |-> c[i]]],
     rank_years |-> years, value_years |-> years] :
      c \in SeqsUpTo(RankCells, MaxCovRows) }

\* the rows of the rank scenario: T1 ranked "3", T2 ranked "7", T3 unranked
ScenarioRows ==
  << [idx |-> 1, tract |-> TRACTCE[1], rank |-> <<"3">>],
     [idx |-> 2, tract |-> TRACTCE[2], rank |-> <<"7">>],
     [idx |-> 3, tract |-> TRACTCE[3], rank |-> NaNRank] >>

\* the year columns a coverage file may hold: every year, or only the first
ColumnYears == {years, {FirstYear}}

\* the scenario's rows in files that hold all or only some year columns
ScenarioTables ==
  { [rows |-> ScenarioRows, rank_years |-> ry, value_years |-> vy] :
      ry \in ColumnYears, vy \in ColumnYears }

\* the tables of the tabs that a family of initial states does not vary
BaselineCoverage ==
  [rows |-> << [idx |-> 1, tract |-> TRACTCE[1], rank |-> <<"3">>] >>,
   rank_years |-> years, value_years |-> years]

BaselineLila == << [idx |-> 1, nta |-> "N1", tract |-> "T1"] >>

\* --------------------------------------------------------------- actions
Rerun(page, w) ==
  \E r \in {main(gdf_lila, gdf_supermarkets, gdf_fast_food, page, w)} :
      /\ selection' = page
      /\ widgets' = r.widgets
      /\ lila' = r.lila
      /\ supermarket' = r.supermarket
      /\ fast_food' = r.fast_food
      /\ exc' = r.exc
      /\ completed' = r.completed
      /\ gdf_lila' = r.gdf_lila
      /\ gdf_supermarkets' = r.gdf_supermarkets
      /\ gdf_fast_food' = r.gdf_fast_food

Init ==
  /\ \/ /\ gdf_lila \in LilaTables
        /\ gdf_supermarkets = BaselineCoverage
        /\ gdf_fast_food = BaselineCoverage
     \/ /\ gdf_lila = BaselineLila
        /\ gdf_supermarkets \in CoverageTables \cup ScenarioTables
        /\ gdf_fast_food = BaselineCoverage
     \/ /\ gdf_lila = BaselineLila
        /\ gdf_supermarkets = BaselineCoverage
        /\ gdf_fast_food \in CoverageTables \cup ScenarioTables
  /\ selection = pages[1]
  /\ widgets = DefaultWidgets
  /\ lila = LilaNotRendered
  /\ supermarket = NotRendered
  /\ fast_food = NotRendered
  /\ exc = "none"
  /\ completed = TRUE

\* st.sidebar.radio("Go to", pages)
Navigate(p) ==
  /\ p # selection
  /\ Rerun(p, widgets)

OnPage == selection = "Data Visualization"

\* st.selectbox("Search for NTA Name:", nta_options); the tract selectbox
\* has no key: it keeps its choice or, being a new widget once its options
\* differ, starts again from "All"
SelectNTA(n, reset) ==
  /\ OnPage
  /\ n \in Range(lila.nta_options0)
  /\ n # widgets.nta
  /\ Rerun(selection, [widgets EXCEPT !.nta = n,
                                      !.tract = IF reset THEN All ELSE @])

\* st.selectbox("Search for Census Tract Area:", tract_options)
SelectTract(t) ==
  /\ OnPage
  /\ t \in Range(lila.tract_options)
  /\ t # widgets.tract
  /\ Rerun(selection, [widgets EXCEPT !.tract = t])

\* the years the model lets the user move a slider to
ExploredYears == {y \in years : y <= FirstYear + MaxYearOffset}

\* st.select_slider(..., key="supermarket_year_slider"); the rank selectbox,
\* whose label names the year, keeps its choice or starts again from 'All'
SelectYearSupermarket(y, reset) ==
  /\ OnPage /\ supermarket.rendered
  /\ y \in ExploredYears
  /\ y # widgets.supermarket_year_slider
  /\ Rerun(selection,
           [widgets EXCEPT !.supermarket_year_slider = y,
                           !.supermarket_rank_select = IF reset THEN AllRank ELSE @])

\* st.selectbox(..., rank_options, key="supermarket_rank_select")
SelectRankSupermarket(r) ==
  /\ OnPage /\ supermarket.rendered
  /\ r \in Range(supermarket.rank_options)
  /\ r # widgets.supermarket_rank_select
  /\ Rerun(selection, [widgets EXCEPT !.supermarket_rank_select = r])

\* st.select_slider(..., key="fast_food_year_slider")
SelectYearFastFood(y, reset) ==
  /\ OnPage /\ fast_food.rendered
  /\ y \in ExploredYears
  /\ y # widgets.fast_food_year_slider
  /\ Rerun(selection,
           [widgets EXCEPT !.fast_food_year_slider = y,
                           !.fast_food_rank_select = IF reset THEN AllRank ELSE @])

\* st.selectbox(..., rank_options, key="fast_food_rank_select")
SelectRankFastFood(r) ==
  /\ OnPage /\ fast_food.rendered
  /\ r \in Range(fast_food.rank_options)
  /\ r # widgets.fast_food_rank_select
  /\ Rerun(selection, [widgets EXCEPT !.fast_food_rank_select = r])

Next ==
  \/ \E p \in Range(pages) : Navigate(p)
  \/ \E n \in NtaCells \cup {All}, reset \in BOOLEAN : SelectNTA(n, reset)
  \/ \E t \in TractCells \cup {All} : SelectTract(t)
  \/ \E y \in years, reset \in BOOLEAN : SelectYearSupermarket(y, reset)
  \/ \E r \in RankCells \cup {AllRank} : SelectRankSupermarket(r)
  \/ \E y \in years, reset \in BOOLEAN : SelectYearFastFood(y, reset)
  \/ \E r \in RankCells \cup {AllRank} : SelectRankFastFood(r)

Spec == Init /\ [][Next]_vars

\* ================================================================ claims
\* the indices of the rows of a table that satisfy a condition
TractIs(rows, T) == {i \in 1..Len(rows) : rows[i].tract = T}
NtaIs(rows, N) == {i \in 1..Len(rows) : rows[i].nta = N}
RankIs(rows, r) == {i \in 1..Len(rows) : rows[i].rank = r}
Idx(rows) == {rows[i].idx : i \in 1..Len(rows)}

\* rows is the sub-table of table made of the rows with the indices in keep
IsSubTable(rows, table, keep) ==
  /\ Len(rows) = Cardinality(keep)
  /\ Idx(rows) = keep
  /\ \A i \in 1..Len(rows) : rows[i] = table[rows[i].idx]
  /\ \A i, j \in 1..Len(rows) : i < j => rows[i].idx < rows[j].idx

\* no tract identifier is held by two rows
UniqueTracts(rows) ==
  \A i, j \in 1..Len(rows) : rows[i].tract = rows[j].tract => i = j

Tabs == {"supermarket", "fast_food"}
TabOf(t) == IF t = "supermarket" THEN supermarket ELSE fast_food
GdfOf(t) == IF t = "supermarket" THEN gdf_supermarkets ELSE gdf_fast_food

\* ---- C1
\* C1 (as stated): with a tract T selected, the LILA filter result has at
\* most one row, every row has identifier T, and it is empty when no row of
\* the dataset has identifier T.
C1_AtMostOneRow ==
  (OnPage /\ lila.tract_widget # All) =>
    /\ Len(lila.filtered_gdf) <= 1
    /\ \A i \in 1..Len(lila.filtered_gdf) :
         lila.filtered_gdf[i].tract = lila.tract_widget
    /\ (TractIs(gdf_lila, lila.tract_widget) = {} => lila.filtered_gdf = <<>>)

\* C1 (amended): with a tract T selected, the LILA filter result is exactly
\* the rows of the dataset whose identifier is present and equals T (none
\* when T is the missing-value option); it has at most one row when no two
\* rows of the dataset share an identifier.
C1_ExactlyTheRowsOfT ==
  (OnPage /\ lila.tract_widget # All) =>
    /\ IsSubTable(lila.filtered_gdf, gdf_lila,
                  IF lila.tract_widget = NaN THEN {}
                  ELSE TractIs(gdf_lila, lila.tract_widget))
    /\ (UniqueTracts(gdf_lila) => Len(lila.filtered_gdf) <= 1)

\* a tract is selected in a two-row dataset of distinct identifiers and the
\* result is its one row
C1_Witness ==
  /\ OnPage /\ lila.tract_widget # All
  /\ Len(gdf_lila) = 2 /\ UniqueTracts(gdf_lila)
  /\ Len(lila.filtered_gdf) = 1

\* ---- C2
\* C2: with a tract T selected the result is the rows of the full dataset
\* with identifier T whatever the neighbourhood selection, the neighbourhood
\* options become "All" plus the neighbourhoods of the result, and a
\* neighbourhood selection of "All" becomes the first other option; with no
\* tract selected the neighbourhood decides, and with both "All" the result
\* is the full dataset.
C2_TractTakesPrecedence ==
  OnPage =>
    /\ lila.tract_widget # All =>
         /\ IsSubTable(lila.filtered_gdf, gdf_lila,
                       IF lila.tract_widget = NaN THEN {}
                       ELSE TractIs(gdf_lila, lila.tract_widget))
         /\ lila.nta_options = <<All>> \o unique(NtaColumn(lila.filtered_gdf))
         /\ lila.nta_widget = All =>
              /\ lila.exc = "none"
              /\ Len(lila.nta_options) >= 2
              /\ lila.nta_selected = lila.nta_options[2]
    /\ (lila.tract_widget = All /\ lila.nta_widget # All) =>
         IsSubTable(lila.filtered_gdf, gdf_lila,
                    IF lila.nta_widget = NaN THEN {}
                    ELSE NtaIs(gdf_lila, lila.nta_widget))
    /\ (lila.tract_widget = All /\ lila.nta_widget = All) =>
         lila.filtered_gdf = gdf_lila

\* ---- C3
\* C3 (as stated): with a neighbourhood N selected, every row of the LILA
\* filter result has neighbourhood N, whatever the tract selection.
C3_NeighbourhoodConstant ==
  (OnPage /\ lila.nta_widget # All) =>
    \A i \in 1..Len(lila.filtered_gdf) : lila.filtered_gdf[i].nta = lila.nta_widget

\* C3 (amended): with a neighbourhood N selected, every row of the LILA
\* filter result has neighbourhood N when no tract is selected, or when no
\* two rows of the dataset share a tract identifier.
C3_NeighbourhoodConstantIfUnique ==
  (OnPage /\ lila.nta_widget # All
     /\ (lila.tract_widget = All \/ UniqueTracts(gdf_lila))) =>
    \A i \in 1..Len(lila.filtered_gdf) : lila.filtered_gdf[i].nta = lila.nta_widget

\* a neighbourhood and one of its tracts are selected, in a dataset of
\* distinct identifiers that holds another neighbourhood too
C3_Witness ==
  /\ OnPage /\ lila.nta_widget # All /\ lila.tract_widget # All
  /\ UniqueTracts(gdf_lila) /\ Len(gdf_lila) = 2
  /\ gdf_lila[1].nta # gdf_lila[2].nta
  /\ Len(lila.filtered_gdf) = 1

\* ---- C4
\* C4: when the year's value column or rank column is absent from a coverage
\* dataset, the tab shows an empty base map and an error message and the run
\* raises nothing, neither before create_map nor in the detail panel.
C4_MissingColumnNoException ==
  \A t \in Tabs :
    (OnPage /\ TabOf(t).rendered
       /\ (~HasValueColumn(GdfOf(t), TabOf(t).year)
             \/ ~HasRankColumn(GdfOf(t), TabOf(t).year))) =>
      /\ TabOf(t).exc = "none"
      /\ TabOf(t).map_shown
      /\ TabOf(t).m = BaseMap
      /\ TabOf(t).st_error

\* ---- C5
\* C5: whenever the selections of a tab match no row, the run completes with
\* an empty map and no detail card and raises nothing; in particular the
\* neighbourhood fallback of a tract selection under neighbourhood "All"
\* does not fail on a result without rows.
C5_EmptyResultNoError ==
  /\ (OnPage /\ lila.filtered_gdf = <<>>) =>
       /\ lila.exc = "none"
       /\ lila.map_shown /\ lila.map_rows = <<>>
       /\ lila.cards = <<>>
  /\ \A t \in Tabs :
       (OnPage /\ TabOf(t).rendered /\ TabOf(t).selected_rank # AllRank
          /\ RankIs(GdfOf(t).rows, TabOf(t).selected_rank) = {}) =>
         /\ TabOf(t).exc = "none"
         /\ TabOf(t).cards = <<>>

\* ---- C6
\* C6: when create_map builds the layers, their rows are exactly the rows of
\* the table whose rank equals the selected rank, or all rows of the table
\* when the selection is "All"; on the scenario rows, rank "3" gives exactly
\* T1 and "All" gives T1, T2 and T3.
C6_RankFilter ==
  \A t \in Tabs :
    (OnPage /\ TabOf(t).rendered /\ TabOf(t).m.choropleth) =>
      /\ TabOf(t).m.tooltip
      /\ IF TabOf(t).selected_rank = AllRank
         THEN TabOf(t).m.rows = GdfOf(t).rows
         ELSE IsSubTable(TabOf(t).m.rows, GdfOf(t).rows,
                         RankIs(GdfOf(t).rows, TabOf(t).selected_rank))
      /\ GdfOf(t).rows = ScenarioRows =>
           /\ TabOf(t).selected_rank = <<"3">> =>
                TabOf(t).m.rows = <<ScenarioRows[1]>>
           /\ TabOf(t).selected_rank = AllRank =>
                TabOf(t).m.rows = ScenarioRows

\* the scenario's supermarket table with rank "3" selected shows T1 alone
C6_Witness ==
  /\ OnPage /\ supermarket.rendered /\ supermarket.m.choropleth
  /\ gdf_supermarkets.rows = ScenarioRows
  /\ supermarket.selected_rank = <<"3">>
  /\ supermarket.m.rows = <<ScenarioRows[1]>>

\* ---- C7
\* C7: for one dataset and year, the rows create_map shows for rank "All"
\* include the rows it shows for any selected rank.
C7_AllIsSuperset ==
  \A t \in Tabs :
    (OnPage /\ TabOf(t).rendered /\ TabOf(t).m.choropleth) =>
      Range(TabOf(t).m.rows)
        \subseteq Range(create_map(GdfOf(t), TabOf(t).year, AllRank).m.rows)

\* a rank is selected in the fast food tab and fewer rows are shown than
\* "All" shows
C7_Witness ==
  /\ OnPage /\ fast_food.rendered /\ fast_food.m.choropleth
  /\ fast_food.selected_rank # AllRank
  /\ fast_food.m.rows # <<>>
  /\ Len(fast_food.m.rows)
       < Len(create_map(gdf_fast_food, fast_food.year, AllRank).m.rows)

RankFilterResult(rows, selected_rank) ==
  IF selected_rank = AllRank THEN 1..Len(rows) ELSE RankIs(rows, selected_rank)

\* C9 (as stated): every tab emits one card for each row of its current
\* filtered table, whatever the selections, "All" included.
C9_OneCardPerRow ==
  OnPage =>
    /\ Len(lila.cards) = Len(lila.filtered_gdf)
    /\ \A t \in Tabs :
         (TabOf(t).rendered /\ HasRankColumn(GdfOf(t), TabOf(t).year)) =>
           Len(TabOf(t).cards) =
             Cardinality(RankFilterResult(GdfOf(t).rows, TabOf(t).selected_rank))

\* C9 (amended): the LILA tab emits one card for each row of the filter
\* result when a neighbourhood or a tract is selected and none when both are
\* "All"; a coverage tab emits one card for each row of the selected rank
\* when a rank is selected and the year's value column exists, and none when
\* the rank is "All" or the value column is missing (the panel then raises
\* KeyError on its first row); a tab that the run does not reach, or whose
\* rank column is missing, emits none.
C9_OneCardPerRowWhenSelected ==
  OnPage =>
    /\ IF lila.nta_widget = All /\ lila.tract_widget = All
       THEN lila.cards = <<>>
       ELSE /\ Len(lila.cards) = Len(lila.filtered_gdf)
            /\ \A i \in 1..Len(lila.cards) :
                 /\ lila.cards[i].tract = lila.filtered_gdf[i].tract
                 /\ lila.cards[i].nta = lila.filtered_gdf[i].nta
    /\ \A t \in Tabs :
         IF ~(TabOf(t).rendered /\ HasRankColumn(GdfOf(t), TabOf(t).year))
         THEN TabOf(t).cards = <<>>
         ELSE
           IF TabOf(t).selected_rank = AllRank THEN TabOf(t).cards = <<>>
           ELSE IF ~HasValueColumn(GdfOf(t), TabOf(t).year)
           THEN TabOf(t).cards = <<>> /\ TabOf(t).exc = "KeyError"
           ELSE /\ IsSubTable(TabOf(t).detail_rows, GdfOf(t).rows,
                              RankIs(GdfOf(t).rows, TabOf(t).selected_rank))
                /\ Len(TabOf(t).cards) = Len(TabOf(t).detail_rows)
                /\ \A i \in 1..Len(TabOf(t).cards) :
                     TabOf(t).cards[i].tract = TabOf(t).detail_rows[i].tract

\* a neighbourhood of two tracts is selected and two cards are emitted
C9_Witness ==
  /\ OnPage /\ lila.nta_widget # All /\ lila.tract_widget = All
  /\ Len(lila.filtered_gdf) = 2
  /\ Len(lila.cards) = 2

\* ---- C10
\* C10: no step changes any of the three loaded tables.
C10_TablesUnchanged ==
  [][/\ gdf_lila' = gdf_lila
     /\ gdf_supermarkets' = gdf_supermarkets
     /\ gdf_fast_food' = gdf_fast_food]_vars

\* a rank filter has produced a table smaller than the loaded one, which
\* still holds all its rows
C10_Witness ==
  /\ OnPage /\ supermarket.rendered /\ supermarket.m.choropleth
  /\ supermarket.selected_rank # AllRank
  /\ Len(supermarket.m.rows) = 1
  /\ Len(gdf_supermarkets.rows) = 2

====
